---- MODULE Spec2Model ----
(***************************************************************************)
(* DOSE (digital organism simulation environment), dose.py: the hook class *)
(* dose_functions and the run driver simulate().                           *)
(*                                                                         *)
(* simulate() is modelled statement by statement: pc names the statement   *)
(* about to execute.  A Python exception that nothing catches ends the     *)
(* call: pc = "aborted" and err holds the exception.                       *)
(***************************************************************************)
EXTENDS Integers, Sequences, FiniteSets, TLC

\* ------------------------------------------------------------------ bounds
MaxDim == 2      \* world_x, world_y, world_z range over 0..MaxDim
MaxGen == 3      \* maximum_generations ranges over -1..MaxGen
MaxPops == 2     \* spawn_populations returns 0..MaxPops populations
MaxFreq == 2     \* print_frequency ranges over 1..MaxFreq
PopSize == 2     \* agents per spawned population

\* ------------------------------------------------------------------ hooks
TwelveHooks ==
    {"mutation_scheme", "prepopulation_control", "fitness", "mating",
     "postpopulation_control", "generation_events", "population_report",
     "organism_movement", "organism_location", "ecoregulate",
     "update_ecology", "update_local"}

ExtraHooks == {"report", "deployment_scheme"}

Hooks == TwelveHooks \cup ExtraHooks

\* Hooks whose documented job is to change one population, and nothing else.
PopulationHooks ==
    {"mutation_scheme", "prepopulation_control", "fitness", "mating",
     "postpopulation_control", "generation_events"}

\* The functions handed to eco_cell_iterator.
CellFunctions == {"update_ecology", "update_local", "report"}

\* Number of parameters in each method's def line, self included where the
\* def line has it.
Parameters(h) ==
    CASE h = "mutation_scheme"        -> 2
      [] h = "prepopulation_control"  -> 3
      [] h = "fitness"                -> 3
      [] h = "mating"                 -> 3
      [] h = "postpopulation_control" -> 3
      [] h = "generation_events"      -> 3
      [] h = "population_report"      -> 3
      [] h = "organism_movement"      -> 4
      [] h = "organism_location"      -> 4
      [] h = "ecoregulate"            -> 2
      [] h = "update_ecology"         -> 5
      [] h = "update_local"           -> 5
      [] h = "report"                 -> 1
      [] h = "deployment_scheme"      -> 3

\* Number of arguments a caller passes to each hook: the documented call
\* shape, which is also the shape simulate and its collaborators use.
Arguments(h) ==
    CASE h = "mutation_scheme"        -> 1
      [] h = "prepopulation_control"  -> 2
      [] h = "fitness"                -> 2
      [] h = "mating"                 -> 2
      [] h = "postpopulation_control" -> 2
      [] h = "generation_events"      -> 2
      [] h = "population_report"      -> 2
      [] h = "organism_movement"      -> 3
      [] h = "organism_location"      -> 3
      [] h = "ecoregulate"            -> 1
      [] h = "update_ecology"         -> 4
      [] h = "update_local"           -> 4
      [] h = "report"                 -> 4
      [] h = "deployment_scheme"      -> 3

\* ------------------------------------------------------------------ errors
NoError == [type |-> "none", at |-> ""]

Raised(t, where) == [type |-> t, at |-> where]

\* The body of every method of dose_functions: a bare raise.
MethodBody(h) == "NotImplementedError"

\* A base class in which one method returns instead of raising.
dose_functions_silent(h, nargs) ==
    IF h = "fitness" THEN NoError
    ELSE IF nargs + 1 # Parameters(h) THEN Raised("TypeError", h)
    ELSE Raised(MethodBody(h), h)

\* Calling method h of the base class on an instance with nargs arguments.
\* The instance is bound as the first parameter, so the function receives
\* nargs + 1 values; Python raises TypeError before the body runs when that
\* is not the number of parameters.
dose_functions(h, nargs) ==
    IF nargs + 1 # Parameters(h)
    THEN Raised("TypeError", h)
    ELSE Raised(MethodBody(h), h)

\* ------------------------------------------------------------------ world
Cells(X, Y, Z) == (0 .. X - 1) \X (0 .. Y - 1) \X (0 .. Z - 1)

\* dose_world.World(x, y, z): a grid of cells, each with its ecological
\* state (abstracted to the number of writes made to it) and the number of
\* organisms in it.
dose_world_World(X, Y, Z) ==
    [x |-> X, y |-> Y, z |-> Z,
     ecosystem |-> [c \in Cells(X, Y, Z) |->
                        [local_input |-> 0, organisms |-> 0]]]

\* The name World before line 306 has bound it.
Unbound == [x |-> 0, y |-> 0, z |-> 0, ecosystem |-> <<>>]

WorldCells(W) == DOMAIN W.ecosystem

\* The cursor of a finished grid pass.
End == <<>>

\* eco_cell_iterator's visiting order: for x, for y, for z.
FirstCell(W) == IF W.x > 0 /\ W.y > 0 /\ W.z > 0 THEN <<0, 0, 0>> ELSE End

\* The visiting order with x innermost: for z, for y, for x.
NextCellByZ(W, c) ==
    IF c[1] + 1 < W.x THEN <<c[1] + 1, c[2], c[3]>>
    ELSE IF c[2] + 1 < W.y THEN <<0, c[2] + 1, c[3]>>
    ELSE IF c[3] + 1 < W.z THEN <<0, 0, c[3] + 1>>
    ELSE End

NextCell(W, c) ==
    IF c[3] + 1 < W.z THEN <<c[1], c[2], c[3] + 1>>
    ELSE IF c[2] + 1 < W.y THEN <<c[1], c[2] + 1, 0>>
    ELSE IF c[1] + 1 < W.x THEN <<c[1] + 1, 0, 0>>
    ELSE End

\* ------------------------------------------------------------------ populations
Origin == <<0, 0, 0>>

\* spawn_populations(sim_parameters): one population of PopSize agents for
\* every configured population name.
spawn_populations(names) ==
    [n \in names |->
        [agents |-> [i \in 1 .. PopSize |-> [location |-> Origin, fitness |-> 0]]]]

\* ------------------------------------------------------------------ user hooks
\* What the methods of the user's subclass do.  Two subclasses stand for all:
\* "noop" (every overriding method returns at once) and "active" (every
\* overriding method does the job its docstring gives it).

\* Every cell's local condition is written once.
Regulate(W) ==
    [W EXCEPT !.ecosystem =
        [c \in WorldCells(W) |-> [W.ecosystem[c] EXCEPT !.local_input = @ + 1]]]

\* One cell's local condition is written once.
Diffuse(W, c) ==
    IF c \in WorldCells(W)
    THEN [W EXCEPT !.ecosystem[c].local_input = @ + 1]
    ELSE W

\* The cell after c in the grid, wrapping around.
Onward(W, c) == IF NextCell(W, c) = End THEN FirstCell(W) ELSE NextCell(W, c)

\* Agent i of population p travels one cell onward, and only its location is
\* updated.
TravelUncounted(W, Ps, p, i) ==
    LET from == Ps[p].agents[i].location
        to   == Onward(W, from)
    IN  IF from \in WorldCells(W) /\ W.ecosystem[from].organisms > 0
        THEN [World |-> W,
              Populations |-> [Ps EXCEPT ![p].agents[i].location = to]]
        ELSE [World |-> W, Populations |-> Ps]

\* Agent i of population p travels one cell onward: both its location and
\* the organism counts of the two cells are updated.
Travel(W, Ps, p, i) ==
    LET from == Ps[p].agents[i].location
        to   == Onward(W, from)
    IN  IF from \in WorldCells(W) /\ W.ecosystem[from].organisms > 0
        THEN [World |->
                 [W EXCEPT !.ecosystem[from].organisms = @ - 1,
                           !.ecosystem[to].organisms = @ + 1],
              Populations |->
                 [Ps EXCEPT ![p].agents[i].location = to]]
        ELSE [World |-> W, Populations |-> Ps]

\* Every agent of population p is put in the first cell.
Place(W, Ps, p) ==
    IF Origin \in WorldCells(W)
    THEN [World |-> [W EXCEPT !.ecosystem[Origin].organisms = @ + PopSize],
          Populations |->
             [Ps EXCEPT ![p].agents =
                 [i \in 1 .. PopSize |-> [@[i] EXCEPT !.location = Origin]]]]
    ELSE [World |-> W, Populations |-> Ps]

\* A population-level event: the first agent's fitness is rewritten.
Touch(Ps, p) == [Ps EXCEPT ![p].agents[1].fitness = @ + 1]

\* Method h of the user's subclass, called for population p and cell c.
UserMethod(b, h, p, c, W, Ps) ==
    IF b = "noop" THEN [World |-> W, Populations |-> Ps]
    ELSE CASE h = "ecoregulate"       -> [World |-> Regulate(W), Populations |-> Ps]
           [] h = "update_ecology"    -> [World |-> Diffuse(W, c), Populations |-> Ps]
           [] h = "update_local"      -> [World |-> Diffuse(W, c), Populations |-> Ps]
           [] h = "organism_movement" -> Travel(W, Ps, p, 1)
           [] h = "organism_location" -> Travel(W, Ps, p, PopSize)
           [] h = "deployment_scheme" -> Place(W, Ps, p)
           [] h \in PopulationHooks   -> [World |-> W, Populations |-> Touch(Ps, p)]
           [] OTHER                   -> [World |-> W, Populations |-> Ps]

\* sim_functions.h(...): the subclass's method when it overrides h, the base
\* class's otherwise.  The result is the exception raised (NoError for a
\* normal return) and the World and Populations the call leaves.
Invoke(over, b, h, p, c, W, Ps) ==
    IF h \in over
    THEN [err |-> NoError] @@ UserMethod(b, h, p, c, W, Ps)
    ELSE [err |-> dose_functions(h, Arguments(h)), World |-> W, Populations |-> Ps]

\* ------------------------------------------------------------------ state
VARIABLES
    sim_parameters,     \* the dictionary handed to simulate
    overridden,         \* the methods the user's subclass overrides
    behaviour,          \* what the overriding methods do: "noop" or "active"
    faulty,             \* TRUE when collaborators and user methods may raise
    population_names,   \* the populations spawn_populations will build
    directory_exists,   \* os.path.exists(directory)
    pc,                 \* the statement of simulate about to execute
    World,
    Populations,
    todo,               \* the names the for loop has not reached yet
    pop_name,
    generation_count,
    iter,               \* the running eco_cell_iterator: its function and cursor
    err,                \* the exception that ended the call, or NoError
    log,                \* every call simulate has made, in order
    cellcalls,          \* this generation's cells, per cell function, in call order
    hookcalls,          \* hook calls made inside collaborators, in order
    memory,             \* the objects a filter call works on: agents and lists
    outcome             \* what the filter calls made so far returned or raised

vars ==
    <<sim_parameters, overridden, behaviour, faulty, population_names,
      directory_exists, pc, World, Populations, todo, pop_name,
      generation_count, iter, err, log, cellcalls, hookcalls, memory, outcome>>

\* What no statement of simulate and no hook assigns.
inputs == <<overridden, behaviour, faulty, population_names, memory, outcome>>

RequiredKeys ==
    {"world_x", "world_y", "world_z", "chromosome_size", "maximum_generations",
     "simulation_name", "ragaraja_version", "print_frequency"}

\* The hooks a run of simulate can reach.
RunHooks ==
    {"ecoregulate", "update_ecology", "update_local", "population_report",
     "organism_movement", "organism_location", "report", "deployment_scheme"}

NoCalls == [f \in CellFunctions |-> <<>>]

Idle == [fn |-> "", cell |-> End]

\* No filter has been called: no agent and no list exists.
NoMemory == [status |-> <<>>, lists |-> <<>>]

NoOutcome == <<>>

\* ------------------------------------------------------------------ inputs
\* One run's inputs: the configuration values, the key left out of the
\* dictionary (if any), the subclass, the environment.
Scenario(x, y, z, g, f, n, miss, over, b, flt, dir) ==
    [x |-> x, y |-> y, z |-> z, g |-> g, f |-> f, n |-> n, missing |-> miss,
     overridden |-> over, behaviour |-> b, faulty |-> flt, directory |-> dir]

Generations == -1 .. MaxGen

PopulationCounts == 0 .. MaxPops

\* Every grid size, with a complete subclass and a complete dictionary.
GridRuns ==
    {Scenario(x, y, z, g, 1, n, {}, Hooks, "active", FALSE, FALSE) :
        x \in 0 .. MaxDim, y \in 0 .. MaxDim, z \in 0 .. MaxDim,
        g \in Generations, n \in PopulationCounts}

\* A one-cell world: both subclasses, every print frequency, a calm or a
\* faulty environment, a run directory that exists already or does not.
SmallRuns ==
    {Scenario(1, 1, 1, g, f, n, {}, Hooks, b, flt, dir) :
        g \in Generations, f \in 1 .. MaxFreq, n \in PopulationCounts,
        b \in {"noop", "active"}, flt \in BOOLEAN, dir \in BOOLEAN}

\* A subclass that leaves one reachable hook, every hook, or every hook but
\* the deployment scheme to the base class.
PartialRuns ==
    {Scenario(1, 1, 1, g, 1, n, {}, over, "active", FALSE, FALSE) :
        g \in Generations, n \in PopulationCounts,
        over \in {Hooks \ {h} : h \in RunHooks} \cup {{}, {"deployment_scheme"}}}

\* A dictionary that lacks one required key.
MisconfiguredRuns ==
    {Scenario(1, 1, 1, g, 1, n, {k}, Hooks, "noop", FALSE, FALSE) :
        g \in Generations, n \in PopulationCounts, k \in RequiredKeys}

Scenarios == GridRuns \cup SmallRuns \cup PartialRuns \cup MisconfiguredRuns

Complete(s) ==
    [world_x |-> s.x, world_y |-> s.y, world_z |-> s.z, chromosome_size |-> 1,
     maximum_generations |-> s.g, simulation_name |-> "sim",
     ragaraja_version |-> 1, print_frequency |-> s.f]

Dictionary(s) == [k \in RequiredKeys \ s.missing |-> Complete(s)[k]]

Init ==
    \E s \in Scenarios :
        /\ sim_parameters = Dictionary(s)
        /\ overridden = s.overridden
        /\ behaviour = s.behaviour
        /\ faulty = s.faulty
        /\ population_names = 1 .. s.n
        /\ directory_exists = s.directory
        /\ pc = "instantiate"
        /\ World = Unbound
        /\ Populations = <<>>
        /\ todo = <<>>
        /\ pop_name = 0
        /\ generation_count = 0
        /\ iter = Idle
        /\ err = NoError
        /\ log = <<>>
        /\ cellcalls = NoCalls
        /\ hookcalls = <<>>
        /\ memory = NoMemory
        /\ outcome = NoOutcome

\* ------------------------------------------------------------------ simulate
\* The first of keys, in the order the code reads them, that sim_parameters
\* lacks; "" when it has them all.  Reading a lacking key raises KeyError.
Lacking(keys) ==
    LET gone == {i \in 1 .. Len(keys) : keys[i] \notin DOMAIN sim_parameters}
    IN  IF gone = {} THEN ""
        ELSE keys[CHOOSE i \in gone : \A j \in gone : i <= j]

\* A driver that carries on after an exception.
PropagateResume(e, next) == next

\* simulate has no try statement: an exception raised by anything it calls
\* ends simulate at once.
Propagate(e, next) == IF e = NoError THEN next ELSE "aborted"

Returned(W, Ps) == [err |-> NoError, World |-> W, Populations |-> Ps]

\* What a call can do: its own result, or, in a faulty environment, raise.
Outcomes(op, r) ==
    IF faulty /\ r.err = NoError
    THEN {r, [err |-> Raised("Error", op), World |-> World, Populations |-> Populations]}
    ELSE {r}

Entry(op, fn, p, g) == [op |-> op, fn |-> fn, pop |-> p, gen |-> g]

\* simulate calls op, which ends as r says; control moves to next.
Call(e, r, next) ==
    /\ log' = Append(log, e)
    /\ err' = r.err
    /\ World' = r.World
    /\ Populations' = r.Populations
    /\ pc' = Propagate(r.err, next)

\* A subscript of sim_parameters raises KeyError in simulate itself.
KeyError(k) ==
    /\ err' = Raised("KeyError", k)
    /\ pc' = Propagate(Raised("KeyError", k), pc)
    /\ UNCHANGED <<log, World, Populations>>

\* The body with the two movement hooks in the other order.
BodyLocationFirst ==
    <<"ecoregulate", "update_ecology", "update_local", "interpret_chromosome",
      "report_generation", "organism_location", "organism_movement", "report",
      "bury_world">>

\* The body with the two diffusion passes in the other order.
BodyLocalFirst ==
    <<"ecoregulate", "update_local", "update_ecology", "interpret_chromosome",
      "report_generation", "organism_movement", "organism_location", "report",
      "bury_world">>

\* The body with ecoregulate behind the update_ecology pass.
BodyRegulateLate ==
    <<"update_ecology", "ecoregulate", "update_local", "interpret_chromosome",
      "report_generation", "organism_movement", "organism_location", "report",
      "bury_world">>

\* The statements of the while loop's body, in source order.
Body ==
    <<"ecoregulate", "update_ecology", "update_local", "interpret_chromosome",
      "report_generation", "organism_movement", "organism_location", "report",
      "bury_world">>

\* The statement after statement p of the body; the loop test after the last.
After(p) ==
    LET i == CHOOSE j \in 1 .. Len(Body) : Body[j] = p
    IN  IF i = Len(Body) THEN "while" ELSE Body[i + 1]

\* The test of a loop that runs one generation too many.
LoopTestInclusive(count, maximum) == count <= maximum

\* The test of a loop that ends only when the counter meets the maximum.
LoopTestUntil(count, maximum) == count # maximum

\* The while loop's test.
LoopTest(count, maximum) == count < maximum

\* line 305
Instantiate ==
    /\ pc = "instantiate"
    /\ pc' = "World"
    /\ UNCHANGED <<sim_parameters, inputs, directory_exists, World, Populations,
                   todo, pop_name, generation_count, iter, err, log, cellcalls,
                   hookcalls>>

\* lines 306-308
NewWorld ==
    /\ pc = "World"
    /\ LET k == Lacking(<<"world_x", "world_y", "world_z">>)
       IN  IF k # "" THEN KeyError(k)
           ELSE \E r \in Outcomes("World",
                           Returned(dose_world_World(sim_parameters["world_x"],
                                                     sim_parameters["world_y"],
                                                     sim_parameters["world_z"]),
                                    Populations)) :
                    Call(Entry("World", "", 0, 0), r, "directory")
    /\ UNCHANGED <<sim_parameters, inputs, directory_exists, todo, pop_name,
                   generation_count, iter, cellcalls, hookcalls>>

\* lines 309-314: the directory is made unless os.path.exists finds it; the
\* log keeps what os.path.exists answered in the entry's fn field.
MakeDirectory ==
    /\ pc = "directory"
    /\ LET k == Lacking(<<"simulation_name">>)
       IN  IF k # "" THEN KeyError(k) /\ UNCHANGED directory_exists
           ELSE IF directory_exists
           THEN /\ log' = Append(log, Entry("os.path.exists", "True", 0, 0))
                /\ pc' = "update"
                /\ UNCHANGED <<directory_exists, err, World, Populations>>
           ELSE \E r \in Outcomes("makedirs", Returned(World, Populations)) :
                    /\ log' = log \o <<Entry("os.path.exists", "False", 0, 0),
                                       Entry("makedirs", "", 0, 0)>>
                    /\ err' = r.err
                    /\ pc' = Propagate(r.err, "update")
                    /\ directory_exists' = (r.err = NoError)
                    /\ UNCHANGED <<World, Populations>>
    /\ UNCHANGED <<sim_parameters, inputs, todo, pop_name, generation_count,
                   iter, cellcalls, hookcalls>>

Injected ==
    [initial_chromosome |-> "0", deployment_scheme |-> "sim_functions.deployment_scheme",
     starting_time |-> "time_start", directory |-> "directory"]

\* lines 315-319
UpdateParameters ==
    /\ pc = "update"
    /\ LET k == Lacking(<<"chromosome_size">>)
       IN  IF k # "" THEN KeyError(k) /\ UNCHANGED sim_parameters
           ELSE /\ sim_parameters' = Injected @@ sim_parameters
                /\ pc' = "spawn"
                /\ UNCHANGED <<err, log, World, Populations>>
    /\ UNCHANGED <<inputs, directory_exists, todo, pop_name, generation_count,
                   iter, cellcalls, hookcalls>>

\* The order in which a for loop meets the names.
Ordered(names) == [i \in 1 .. Cardinality(names) |-> i]

\* line 320
SpawnPopulations ==
    /\ pc = "spawn"
    /\ \E r \in Outcomes("spawn_populations",
                         Returned(World, spawn_populations(population_names))) :
           /\ Call(Entry("spawn_populations", "", 0, 0), r, "activate")
           /\ todo' = IF r.err = NoError THEN Ordered(population_names) ELSE todo
    /\ UNCHANGED <<sim_parameters, inputs, directory_exists, pop_name,
                   generation_count, iter, cellcalls, hookcalls>>

\* line 321
ActivateVersion ==
    /\ pc = "activate"
    /\ LET k == Lacking(<<"ragaraja_version">>)
       IN  IF k # "" THEN KeyError(k)
           ELSE \E r \in Outcomes("activate_version", Returned(World, Populations)) :
                    Call(Entry("activate_version", "", 0, 0), r, "for")
    /\ UNCHANGED <<sim_parameters, inputs, directory_exists, todo, pop_name,
                   generation_count, iter, cellcalls, hookcalls>>

\* A for loop that gives every population a world of its own.
ForPopulationFresh ==
    /\ pc = "for"
    /\ IF todo = <<>>
       THEN pc' = "done" /\ UNCHANGED <<todo, pop_name, World>>
       ELSE /\ pop_name' = Head(todo)
            /\ todo' = Tail(todo)
            /\ World' = dose_world_World(World.x, World.y, World.z)
            /\ pc' = "write_parameters"
    /\ UNCHANGED <<sim_parameters, inputs, directory_exists, Populations,
                   generation_count, iter, err, log, cellcalls, hookcalls>>

\* line 322: the for loop takes the next population, or ends simulate.
ForPopulation ==
    /\ pc = "for"
    /\ IF todo = <<>>
       THEN pc' = "done" /\ UNCHANGED <<todo, pop_name>>
       ELSE /\ pop_name' = Head(todo)
            /\ todo' = Tail(todo)
            /\ pc' = "write_parameters"
    /\ UNCHANGED <<sim_parameters, inputs, directory_exists, World, Populations,
                   generation_count, iter, err, log, cellcalls, hookcalls>>

\* line 323
WriteParameters ==
    /\ pc = "write_parameters"
    /\ \E r \in Outcomes("write_parameters", Returned(World, Populations)) :
           Call(Entry("write_parameters", "", pop_name, 0), r, "deploy")
    /\ UNCHANGED <<sim_parameters, inputs, directory_exists, todo, pop_name,
                   generation_count, iter, cellcalls, hookcalls>>

Nested(h, g) == [hook |-> h, pop |-> pop_name, gen |-> g]

\* deploy(sim_parameters, Populations, pop_name, World): hands the population
\* to sim_parameters["deployment_scheme"].
deploy ==
    Invoke(overridden, behaviour, "deployment_scheme", pop_name, End, World, Populations)

\* lines 324-325
Deploy ==
    /\ pc = "deploy"
    /\ \E r \in Outcomes("deploy", deploy) :
           /\ Call(Entry("deploy", "", pop_name, 0), r, "while")
           /\ generation_count' = IF r.err = NoError THEN 0 ELSE generation_count
    /\ hookcalls' = Append(hookcalls, Nested("deployment_scheme", 0))
    /\ UNCHANGED <<sim_parameters, inputs, directory_exists, todo, pop_name,
                   iter, cellcalls>>

\* lines 326-327
While ==
    /\ pc = "while"
    /\ LET k == Lacking(<<"maximum_generations">>)
       IN  IF k # "" THEN KeyError(k) /\ UNCHANGED <<generation_count, cellcalls>>
           ELSE IF LoopTest(generation_count, sim_parameters["maximum_generations"])
           THEN /\ generation_count' = generation_count + 1
                /\ cellcalls' = NoCalls
                /\ pc' = Body[1]
                /\ UNCHANGED <<err, log, World, Populations>>
           ELSE /\ pc' = "close_results"
                /\ UNCHANGED <<generation_count, cellcalls, err, log, World, Populations>>
    /\ UNCHANGED <<sim_parameters, inputs, directory_exists, todo, pop_name,
                   iter, hookcalls>>

\* A statement of the body that calls hook h on sim_functions.
HookStatement(h) ==
    /\ pc = h
    /\ \E r \in Outcomes(h, Invoke(overridden, behaviour, h, pop_name, End,
                                   World, Populations)) :
           Call(Entry(h, "", pop_name, generation_count), r, After(h))
    /\ UNCHANGED <<sim_parameters, inputs, directory_exists, todo, pop_name,
                   generation_count, iter, cellcalls, hookcalls>>

\* line 328
Ecoregulate == HookStatement("ecoregulate")

\* lines 329-332 and 339: eco_cell_iterator is called with function fn.
EcoCellIterator(fn) ==
    /\ pc = fn
    /\ \E r \in Outcomes("eco_cell_iterator", Returned(World, Populations)) :
           /\ Call(Entry("eco_cell_iterator", fn, pop_name, generation_count), r,
                   "iterating")
           /\ iter' = IF r.err = NoError
                      THEN [fn |-> fn, cell |-> FirstCell(World)]
                      ELSE iter
    /\ UNCHANGED <<sim_parameters, inputs, directory_exists, todo, pop_name,
                   generation_count, cellcalls, hookcalls>>

\* eco_cell_iterator calls its function on the cell under the cursor.
CellStep ==
    /\ pc = "iterating"
    /\ iter.cell # End
    /\ \E r \in Outcomes(iter.fn, Invoke(overridden, behaviour, iter.fn, pop_name,
                                         iter.cell, World, Populations)) :
           /\ err' = r.err
           /\ World' = r.World
           /\ Populations' = r.Populations
           /\ pc' = Propagate(r.err, "iterating")
           /\ iter' = IF r.err = NoError
                      THEN [iter EXCEPT !.cell = NextCell(World, iter.cell)]
                      ELSE iter
    /\ cellcalls' = [cellcalls EXCEPT ![iter.fn] = Append(@, iter.cell)]
    /\ UNCHANGED <<sim_parameters, inputs, directory_exists, todo, pop_name,
                   generation_count, log, hookcalls>>

\* eco_cell_iterator returns once the cursor has left the grid.
PassReturn ==
    /\ pc = "iterating"
    /\ iter.cell = End
    /\ pc' = After(iter.fn)
    /\ iter' = Idle
    /\ UNCHANGED <<sim_parameters, inputs, directory_exists, World, Populations,
                   todo, pop_name, generation_count, err, log, cellcalls,
                   hookcalls>>

\* lines 333-334
InterpretChromosome ==
    /\ pc = "interpret_chromosome"
    /\ \E r \in Outcomes("interpret_chromosome", Returned(World, Populations)) :
           Call(Entry("interpret_chromosome", "", pop_name, generation_count), r,
                After("interpret_chromosome"))
    /\ UNCHANGED <<sim_parameters, inputs, directory_exists, todo, pop_name,
                   generation_count, iter, cellcalls, hookcalls>>

\* Whether report_generation asks for a report at generation g.
Due(g) == g % sim_parameters["print_frequency"] = 0

\* report_generation(sim_parameters, Populations, pop_name, sim_functions,
\* generation_count): calls population_report when a report is due.
report_generation ==
    IF Lacking(<<"print_frequency">>) # ""
    THEN [err |-> Raised("KeyError", "print_frequency"),
          World |-> World, Populations |-> Populations]
    ELSE IF Due(generation_count)
    THEN Invoke(overridden, behaviour, "population_report", pop_name, End,
                World, Populations)
    ELSE Returned(World, Populations)

\* lines 335-336
ReportGeneration ==
    /\ pc = "report_generation"
    /\ \E r \in Outcomes("report_generation", report_generation) :
           Call(Entry("report_generation", "", pop_name, generation_count), r,
                After("report_generation"))
    /\ hookcalls' =
           IF Lacking(<<"print_frequency">>) = "" /\ Due(generation_count)
           THEN Append(hookcalls, Nested("population_report", generation_count))
           ELSE hookcalls
    /\ UNCHANGED <<sim_parameters, inputs, directory_exists, todo, pop_name,
                   generation_count, iter, cellcalls>>

\* line 337
OrganismMovement == HookStatement("organism_movement")

\* line 338
OrganismLocation == HookStatement("organism_location")

\* line 340
BuryWorld ==
    /\ pc = "bury_world"
    /\ \E r \in Outcomes("bury_world", Returned(World, Populations)) :
           Call(Entry("bury_world", "", pop_name, generation_count), r,
                After("bury_world"))
    /\ UNCHANGED <<sim_parameters, inputs, directory_exists, todo, pop_name,
                   generation_count, iter, cellcalls, hookcalls>>

\* line 341
CloseResults ==
    /\ pc = "close_results"
    /\ \E r \in Outcomes("close_results", Returned(World, Populations)) :
           Call(Entry("close_results", "", pop_name, 0), r, "for")
    /\ UNCHANGED <<sim_parameters, inputs, directory_exists, todo, pop_name,
                   generation_count, iter, cellcalls, hookcalls>>

Next ==
    \/ Instantiate
    \/ NewWorld
    \/ MakeDirectory
    \/ UpdateParameters
    \/ SpawnPopulations
    \/ ActivateVersion
    \/ ForPopulation
    \/ WriteParameters
    \/ Deploy
    \/ While
    \/ Ecoregulate
    \/ \E fn \in CellFunctions : EcoCellIterator(fn)
    \/ CellStep
    \/ PassReturn
    \/ InterpretChromosome
    \/ ReportGeneration
    \/ OrganismMovement
    \/ OrganismLocation
    \/ BuryWorld
    \/ CloseResults

Spec == Init /\ [][Next]_vars

\* ------------------------------------------------------------------ hooks called directly
\* A simulation author's code calls one method of the hook object, with the
\* documented arguments, on a world that holds the deployed populations.

RECURSIVE Settle(_, _, _)
\* Populations 1 .. n placed in the world, one after the other.
Settle(W, Ps, n) ==
    IF n = 0 THEN [World |-> W, Populations |-> Ps]
    ELSE LET r == Settle(W, Ps, n - 1) IN Place(r.World, r.Populations, n)

Subclasses == {Hooks, {}} \cup {Hooks \ {h} : h \in Hooks}

InitHooks ==
    \E x \in 0 .. MaxDim, y \in 0 .. MaxDim, z \in 0 .. MaxDim, n \in 1 .. MaxPops,
       over \in Subclasses, b \in {"noop", "active"} :
        LET s == Scenario(x, y, z, 0, 1, n, {}, over, b, FALSE, FALSE)
            r == Settle(dose_world_World(x, y, z), spawn_populations(1 .. n), n)
        IN  /\ sim_parameters = Dictionary(s)
            /\ overridden = over
            /\ behaviour = b
            /\ faulty = FALSE
            /\ population_names = 1 .. n
            /\ directory_exists = FALSE
            /\ pc = "caller"
            /\ World = r.World
            /\ Populations = r.Populations
            /\ todo = <<>>
            /\ pop_name = 0
            /\ generation_count = 0
            /\ iter = Idle
            /\ err = NoError
            /\ log = <<>>
            /\ cellcalls = NoCalls
            /\ hookcalls = <<>>
            /\ memory = NoMemory
            /\ outcome = NoOutcome

\* sim_functions.h(...) for population p (and cell c, for a cell function).
DirectCall(h, p, c) ==
    /\ pc = "caller"
    /\ LET r == Invoke(overridden, behaviour, h, p, c, World, Populations)
       IN  /\ err' = r.err
           /\ World' = r.World
           /\ Populations' = r.Populations
           /\ pc' = Propagate(r.err, "returned")
    /\ hookcalls' = Append(hookcalls, [hook |-> h, pop |-> p, gen |-> 0])
    /\ UNCHANGED <<sim_parameters, inputs, directory_exists, todo, pop_name,
                   generation_count, iter, log, cellcalls>>

NextHooks ==
    \E h \in Hooks, p \in DOMAIN Populations :
        \E c \in (IF h \in CellFunctions THEN WorldCells(World) \cup {Origin} ELSE {End}) :
            DirectCall(h, p, c)

SpecHooks == InitHooks /\ [][NextHooks]_vars

\* ------------------------------------------------------------------ properties
\* The phases of a generation, in the order the design gives them.
PhaseOrder ==
    <<"ecoregulate", "update_ecology", "update_local", "interpret_chromosome",
      "report_generation", "organism_movement", "organism_location", "report",
      "bury_world">>

\* The phase a logged call belongs to: a grid pass is named by its function.
Phase(e) == IF e.op = "eco_cell_iterator" THEN e.fn ELSE e.op

IsPhase(e) == \E i \in 1 .. Len(PhaseOrder) : PhaseOrder[i] = Phase(e)

Position(e) == CHOOSE i \in 1 .. Len(PhaseOrder) : PhaseOrder[i] = Phase(e)

\* Function fn has been called on every cell of the grid, once each.
PassDone(fn) ==
    /\ Len(cellcalls[fn]) = Cardinality(WorldCells(World))
    /\ {cellcalls[fn][i] : i \in 1 .. Len(cellcalls[fn])} = WorldCells(World)

\* Call b is the one that has to come right after call a.
Follows(a, b) ==
    IF Position(b) = 1
    THEN \/ a.op = "deploy" /\ a.pop = b.pop /\ b.gen = 1
         \/ a.op = "bury_world" /\ a.pop = b.pop /\ b.gen = a.gen + 1
    ELSE /\ IsPhase(a)
         /\ Position(a) = Position(b) - 1
         /\ a.pop = b.pop
         /\ a.gen = b.gen

HasMaximum == "maximum_generations" \in DOMAIN sim_parameters

N == sim_parameters["maximum_generations"]

Closed(p) == \E i \in 1 .. Len(log) : log[i].op = "close_results" /\ log[i].pop = p

\* The calls of op made for population p, in order.
CallsOf(op, p) ==
    LET Mine(e) == e.op = op /\ e.pop = p IN SelectSeq(log, Mine)

\* The generation numbers handed to op for population p, in order.
Gens(op, p) == [i \in 1 .. Len(CallsOf(op, p)) |-> CallsOf(op, p)[i].gen]

UpTo(n) == [i \in 1 .. n |-> i]

\* C1: in every generation of every population the phases are invoked in the
\* order ecoregulate, update_ecology pass, update_local pass,
\* interpret_chromosome, report_generation, organism_movement,
\* organism_location, report pass, bury_world: every phase call comes right
\* after the call of the phase before it in the same generation (the first
\* one right after deploy or after bury_world of the generation before), and
\* a grid pass has covered the whole grid once a later phase has started.
C1_PhasesInOrder ==
    /\ \A i \in 1 .. Len(log) :
           IsPhase(log[i]) => i > 1 /\ Follows(log[i - 1], log[i])
    /\ \A k \in 1 .. Len(PhaseOrder) :
           ( /\ PhaseOrder[k] \in CellFunctions
             /\ log # <<>>
             /\ IsPhase(log[Len(log)])
             /\ log[Len(log)].gen = generation_count
             /\ Position(log[Len(log)]) > k )
           => PassDone(PhaseOrder[k])

\* Two whole generations have run on a grid of several cells.
C1_Witness ==
    /\ pc = "done"
    /\ Cardinality(WorldCells(World)) >= 2
    /\ \E i \in 1 .. Len(log) : log[i].op = "bury_world" /\ log[i].gen = 2

\* C2: within a generation update_ecology has been called on every cell of
\* the grid before update_local is called on any cell.
C2_PassesSeparated ==
    (cellcalls["update_local"] # <<>> \/ iter.fn = "update_local")
        => PassDone("update_ecology") /\ iter.fn # "update_ecology"

\* update_local is running over a grid of several cells, in a later generation.
C2_Witness ==
    /\ cellcalls["update_local"] # <<>>
    /\ Cardinality(WorldCells(World)) >= 2
    /\ generation_count >= 2

\* Where a logged call stands in its population's life: 0 during setup, g in
\* generation g, maximum_generations + 1 once closed.
Rank(e) ==
    IF e.op \in {"write_parameters", "deploy"} THEN 0
    ELSE IF e.op = "close_results" THEN N + 1
    ELSE e.gen

\* C3: with maximum_generations = N >= 1 the loop runs exactly N generations:
\* report_generation and bury_world receive the generation numbers 1, 2, ...
\* in order without gap or repeat, all of 1 .. N by the time the population is
\* closed; the loop is left only with the counter at N; and a population's
\* calls go from setup through generations 1 .. N to closed, never backwards
\* and never skipping a stage.
C3_ExactlyNGenerations ==
    (HasMaximum /\ N >= 1) =>
        /\ \A p \in population_names :
               /\ Gens("bury_world", p) = UpTo(Len(Gens("bury_world", p)))
               /\ Gens("report_generation", p) = UpTo(Len(Gens("report_generation", p)))
               /\ Len(Gens("report_generation", p)) <= N
               /\ Closed(p) => /\ Gens("bury_world", p) = UpTo(N)
                               /\ Gens("report_generation", p) = UpTo(N)
        /\ pc = "close_results" => generation_count = N
        /\ \A i \in 2 .. Len(log) :
               (log[i].pop # 0 /\ log[i].pop = log[i - 1].pop)
                   => /\ Rank(log[i - 1]) <= Rank(log[i])
                      /\ Rank(log[i]) <= Rank(log[i - 1]) + 1

\* A run of at least two generations has closed its populations.
C3_Witness ==
    /\ pc = "done"
    /\ HasMaximum
    /\ N >= 2
    /\ Closed(1)

\* C4: ecoregulate is invoked exactly maximum_generations times for each
\* population (so populations * maximum_generations times in a whole run),
\* each time right after deploy or the bury_world of the generation before,
\* and before any update_ecology call of its own generation.
C4_EcoregulateCount ==
    (HasMaximum /\ N >= 0) =>
        /\ \A p \in population_names :
               Closed(p) => Len(CallsOf("ecoregulate", p)) = N
        /\ pc = "done" =>
               Len(SelectSeq(log, LAMBDA e : e.op = "ecoregulate"))
                   = Cardinality(population_names) * N
        /\ \A i \in 1 .. Len(log) :
               log[i].op = "ecoregulate" =>
                   /\ i > 1
                   /\ \/ /\ log[i - 1].op = "deploy"
                         /\ log[i].gen = 1
                         /\ log[i - 1].pop = log[i].pop
                      \/ /\ log[i - 1].op = "bury_world"
                         /\ log[i - 1].gen = log[i].gen - 1
                         /\ log[i - 1].pop = log[i].pop
                   /\ i < Len(log) =>
                          /\ log[i + 1].op = "eco_cell_iterator"
                          /\ log[i + 1].fn = "update_ecology"
                          /\ log[i + 1].gen = log[i].gen
                          /\ log[i + 1].pop = log[i].pop
                   /\ i = Len(log) => cellcalls["update_ecology"] = <<>>

\* A run of three generations for each of two populations has ended.
C4_Witness ==
    /\ pc = "done"
    /\ HasMaximum
    /\ N = 3
    /\ Cardinality(population_names) = 2
    /\ Len(CallsOf("ecoregulate", 1)) = 3
    /\ Len(CallsOf("ecoregulate", 2)) = 3

\* C5: calling any of the twelve hook operations on a hook object that does
\* not override it raises NotImplementedError and leaves the World and the
\* Populations exactly as they were before the call.
C5_UnimplementedNoEffect ==
    [][ \A h \in TwelveHooks :
            ( /\ hookcalls' # hookcalls
              /\ hookcalls'[Len(hookcalls')].hook = h
              /\ h \notin overridden )
            => /\ err' = Raised("NotImplementedError", h)
               /\ World' = World
               /\ Populations' = Populations ]_vars

\* One of the twelve, left to the base class, has been called on a world
\* that holds organisms, and has raised.
C5_Witness ==
    /\ pc = "aborted"
    /\ hookcalls # <<>>
    /\ hookcalls[Len(hookcalls)].hook \in TwelveHooks
    /\ err.type = "NotImplementedError"
    /\ Origin \in WorldCells(World)
    /\ World.ecosystem[Origin].organisms > 0

\* C6: report and deployment_scheme, left to the base class and invoked on
\* the hook object the way the run invokes them, fail with
\* NotImplementedError and with no other kind of error.
C6_SameFailFastDefault ==
    (err # NoError /\ err.at \in ExtraHooks /\ err.at \notin overridden)
        => err.type = "NotImplementedError"

\* A run that has stopped is done or aborted; it is aborted exactly when an
\* exception was raised, and done only with every population closed after
\* all its generations.
C7_Ended ==
    /\ pc = "aborted" <=> err # NoError
    /\ ~ ENABLED Next => pc \in {"done", "aborted"}
    /\ pc = "done" =>
           \A p \in population_names :
               /\ Closed(p)
               /\ (HasMaximum /\ N >= 0) => Gens("bury_world", p) = UpTo(N)

\* C7: an exception raised in any phase ends simulate at once: the failing
\* call is the last call made (no later phase, generation, close_results or
\* population, no retry), and a run that has stopped has either closed every
\* population after all its generations or ended with the exception.
C7_AbortsAtOnce ==
    /\ []C7_Ended
    /\ [][ /\ err = NoError
           /\ err' # NoError => pc' = "aborted" /\ Len(log') <= Len(log) + 2 ]_vars

\* A call has raised in the middle of a run: generations and populations
\* are left that will never be processed.
C7_Witness ==
    /\ pc = "aborted"
    /\ err.type = "Error"
    /\ todo # <<>>
    /\ generation_count >= 1
    /\ generation_count < N
    /\ ~ ENABLED Next

\* Every call logged for no population in particular comes before every
\* call logged for a population; the calls of one population are together,
\* in the order write_parameters, deploy, generations, close_results.
C8_Sequence ==
    /\ Len(SelectSeq(log, LAMBDA e : e.op = "World")) <= 1
    /\ (\E i \in 1 .. Len(log) : log[i].pop # 0) => log[1].op = "World"
    /\ \A p \in population_names :
           /\ Len(CallsOf("write_parameters", p)) <= 1
           /\ Len(CallsOf("deploy", p)) <= 1
           /\ Len(CallsOf("close_results", p)) <= 1
    /\ \A i \in 2 .. Len(log) :
           /\ log[i].pop >= log[i - 1].pop
           /\ log[i].pop # log[i - 1].pop =>
                  /\ log[i].op = "write_parameters"
                  /\ log[i].pop = log[i - 1].pop + 1
                  /\ log[i - 1].op = "close_results" \/ log[i - 1].pop = 0
           /\ log[i].op = "write_parameters" => log[i].pop # log[i - 1].pop
           /\ log[i].op = "deploy" =>
                  log[i - 1].op = "write_parameters" /\ log[i - 1].pop = log[i].pop
           /\ log[i].op = "close_results" =>
                  /\ log[i - 1].pop = log[i].pop
                  /\ \/ log[i - 1].op = "deploy" /\ (HasMaximum => N <= 0)
                     \/ log[i - 1].op = "bury_world" /\ (HasMaximum => log[i - 1].gen = N)

\* C8: populations are processed strictly one at a time, each as
\* write_parameters, deploy, all its generations, close_results exactly once,
\* and no call for the next population comes before close_results of the
\* current one; the World is constructed once, before the first population,
\* and moving on to the next population leaves it as the previous
\* population left it.
C8_OneAtATime ==
    /\ []C8_Sequence
    /\ [][ pop_name' # pop_name => World' = World ]_vars

\* The second population is being set up in a world the first one wrote to.
C8_Witness ==
    /\ pop_name = 2
    /\ pc = "deploy"
    /\ Origin \in WorldCells(World)
    /\ World.ecosystem[Origin].local_input > 0
    /\ World.ecosystem[Origin].organisms > 0

\* The dictionary lacks a required key or gives the grid a dimension <= 0.
Invalid ==
    \/ ~ (RequiredKeys \subseteq DOMAIN sim_parameters)
    \/ \E k \in {"world_x", "world_y", "world_z"} :
           k \in DOMAIN sim_parameters /\ sim_parameters[k] <= 0

\* C9: under an invalid configuration simulate fails before
\* spawn_populations is invoked: no population is spawned, deployed or run.
C9_ValidatedBeforeSpawn ==
    Invalid => \A i \in 1 .. Len(log) : log[i].op # "spawn_populations"

\* The end-to-end scenario: one population, a 1 x 1 x 1 world, two
\* generations, a report every generation, every hook a no-op, nothing in the
\* environment failing.
EndToEnd ==
    /\ RequiredKeys \subseteq DOMAIN sim_parameters
    /\ sim_parameters["world_x"] = 1
    /\ sim_parameters["world_y"] = 1
    /\ sim_parameters["world_z"] = 1
    /\ sim_parameters["maximum_generations"] = 2
    /\ sim_parameters["print_frequency"] = 1
    /\ population_names = {1}
    /\ overridden = Hooks
    /\ behaviour = "noop"
    /\ ~ faulty

Reports == SelectSeq(hookcalls, LAMBDA c : c.hook = "population_report")

Made == Len(SelectSeq(log, LAMBDA e : e.op = "makedirs"))

Found == \E i \in 1 .. Len(log) : log[i].op = "os.path.exists" /\ log[i].fn = "True"

\* What the scenario's run has done by its end, the directory aside.
EndToEndResult ==
    /\ Len(Reports) = 2
    /\ Gens("bury_world", 1) = <<1, 2>>
    /\ generation_count = 2
    /\ \A i \in 1 .. PopSize : Populations[1].agents[i].location = Origin

\* C10 as stated: the scenario's run ends without error with 2 calls to
\* population_report, the run directory created exactly once, bury_world
\* invoked for generations 1 and 2, the counter at 2, no agent moved.
C10_CreatedExactlyOnce ==
    EndToEnd => /\ err = NoError
                /\ pc = "done" => EndToEndResult /\ Made = 1

\* C10: the scenario's run ends without error with 2 calls to
\* population_report, bury_world invoked for generations 1 and 2, the counter
\* at 2, no agent moved; the run directory exists and was created exactly
\* once when os.path.exists did not find it, not at all when it did.
C10_EndToEnd ==
    EndToEnd => /\ err = NoError
                /\ Made <= 1
                /\ pc = "done" => /\ EndToEndResult
                                  /\ directory_exists
                                  /\ Made = (IF Found THEN 0 ELSE 1)

\* The scenario's run has ended, having made its directory.
C10_Witness ==
    /\ EndToEnd
    /\ pc = "done"
    /\ Made = 1
    /\ Len(Reports) = 2

\* ------------------------------------------------------------------ filters
\* The longest list of agents handed to a filter.
MaxLen == 3

\* Python values.  A number is held in hundredths, so 9.99 is 999; a string
\* is the sequence of its characters.
PyInt(i) == [t |-> "int", n |-> 100 * i, s |-> <<>>]

PyFloat(hundredths) == [t |-> "float", n |-> hundredths, s |-> <<>>]

PyBool(b) == [t |-> "bool", n |-> IF b THEN 100 ELSE 0, s |-> <<>>]

PyStr(chars) == [t |-> "str", n |-> 0, s |-> chars]

PyTuple(first, second) == [t |-> "tuple", n |-> 0, s |-> <<>>, items |-> <<first, second>>]

Digits == <<"0", "1", "2", "3", "4", "5", "6", "7", "8", "9">>

IsDigit(c) == \E d \in 1 .. 10 : Digits[d] = c

DigitValue(c) == (CHOOSE d \in 1 .. 10 : Digits[d] = c) - 1

RECURSIVE Decimal(_)
Decimal(chars) ==
    IF chars = <<>> THEN 0
    ELSE 10 * Decimal(SubSeq(chars, 1, Len(chars) - 1)) + DigitValue(chars[Len(chars)])

\* float(v): a number converts to itself and True to 1.0; a string is parsed
\* (here: a string of digits, or one that holds a letter, which raises
\* ValueError); a tuple raises TypeError.
float(v) ==
    IF v.t = "str"
    THEN IF v.s # <<>> /\ \A i \in 1 .. Len(v.s) : IsDigit(v.s[i])
         THEN [err |-> NoError, n |-> 100 * Decimal(v.s)]
         ELSE [err |-> Raised("ValueError", "float"), n |-> 0]
    ELSE IF v.t = "tuple"
    THEN [err |-> Raised("TypeError", "float"), n |-> 0]
    ELSE [err |-> NoError, n |-> v.n]

\* a == b in Python: numbers and booleans compare by value, a string equals
\* only the same string.
Equal(a, b) ==
    IF a.t = "str" \/ b.t = "str" THEN a.t = b.t /\ a.s = b.s
    ELSE IF a.t = "tuple" \/ b.t = "tuple" THEN a.t = b.t /\ a.items = b.items
    ELSE a.n = b.n

\* str.upper(), on the letters the demes and genders here are written in.
UpperChar(c) == CASE c = "a" -> "A" [] c = "b" -> "B" [] c = "m" -> "M" [] c = "f" -> "F" [] OTHER -> c

upper(chars) == [i \in 1 .. Len(chars) |-> UpperChar(chars[i])]

\* The 0.01 of the range tests, in hundredths.
Tolerance == 1

Verdict(e, keep) == [err |-> e, keep |-> keep]

\* The range test with both comparisons made inclusive.
InRangeClosed(value, minimum, maximum) ==
    LET v == float(value)
        lo == float(minimum)
        hi == float(maximum)
    IN  IF v.err # NoError THEN Verdict(v.err, FALSE)
        ELSE IF lo.err # NoError THEN Verdict(lo.err, FALSE)
        ELSE IF ~(v.n >= lo.n - Tolerance) THEN Verdict(NoError, FALSE)
        ELSE IF hi.err # NoError THEN Verdict(hi.err, FALSE)
        ELSE Verdict(NoError, v.n <= hi.n + Tolerance)

\* float(value) > float(minimum) - 0.01, then float(value) < float(maximum) + 0.01:
\* the conversions in the order the nested ifs make them, the first failure
\* ending the test.
InRange(value, minimum, maximum) ==
    LET v == float(value)
        lo == float(minimum)
        hi == float(maximum)
    IN  IF v.err # NoError THEN Verdict(v.err, FALSE)
        ELSE IF lo.err # NoError THEN Verdict(lo.err, FALSE)
        ELSE IF ~(v.n > lo.n - Tolerance) THEN Verdict(NoError, FALSE)
        ELSE IF hi.err # NoError THEN Verdict(hi.err, FALSE)
        ELSE Verdict(NoError, v.n < hi.n + Tolerance)

\* extract.append(individual), twice over.
appendTwice(mem, extract, individual) ==
    [mem EXCEPT !.lists[extract] = Append(Append(@, individual), individual)]

\* extract.append(individual)
append(mem, extract, individual) ==
    [mem EXCEPT !.lists[extract] = Append(@, individual)]

\* The loop with a test that passes over an individual whose test raises.
RECURSIVE IterateSkipping(_, _, _, _, _)
IterateSkipping(mem, agents, extract, verdict, i) ==
    IF i > Len(mem.lists[agents])
    THEN [memory |-> mem, result |-> extract, err |-> NoError]
    ELSE LET individual == mem.lists[agents][i]
             v == verdict[individual]
         IN  IterateSkipping(IF v.err = NoError /\ v.keep
                             THEN append(mem, extract, individual) ELSE mem,
                             agents, extract, verdict, i + 1)

\* for individual in agents: the test, and the append when it passes.  An
\* exception leaves the loop and the function; nothing is returned.
RECURSIVE Iterate(_, _, _, _, _)
Iterate(mem, agents, extract, verdict, i) ==
    IF i > Len(mem.lists[agents])
    THEN [memory |-> mem, result |-> extract, err |-> NoError]
    ELSE LET individual == mem.lists[agents][i]
             v == verdict[individual]
         IN  IF v.err # NoError
             THEN [memory |-> mem, result |-> 0, err |-> v.err]
             ELSE Iterate(IF v.keep THEN append(mem, extract, individual) ELSE mem,
                          agents, extract, verdict, i + 1)

\* A filter whose loop passes over the first individual of the list.
FilterFromSecond(agents, mem, verdict) ==
    Iterate([mem EXCEPT !.lists = Append(@, <<>>)], agents, Len(mem.lists) + 1,
            verdict, 2)

\* extract = [] makes a new list; the loop fills it; return extract.
Filter(agents, mem, verdict) ==
    Iterate([mem EXCEPT !.lists = Append(@, <<>>)], agents, Len(mem.lists) + 1,
            verdict, 1)

Individuals(mem) == DOMAIN mem.status

\* filter_deme comparing the names as they are written.
filter_deme_exact(deme_name, agents, mem) ==
    Filter(agents, mem,
           [a \in Individuals(mem) |->
               Verdict(NoError, mem.status[a].deme = deme_name)])

filter_deme(deme_name, agents, mem) ==
    Filter(agents, mem,
           [a \in Individuals(mem) |->
               Verdict(NoError, upper(mem.status[a].deme) = upper(deme_name))])

filter_gender(gender, agents, mem) ==
    Filter(agents, mem,
           [a \in Individuals(mem) |->
               Verdict(NoError, upper(mem.status[a].gender) = upper(gender))])

filter_age(minimum, maximum, agents, mem) ==
    Filter(agents, mem,
           [a \in Individuals(mem) |-> InRange(mem.status[a].age, minimum, maximum)])

filter_location(location, agents, mem) ==
    Filter(agents, mem,
           [a \in Individuals(mem) |->
               Verdict(NoError, mem.status[a].location = location)])

filter_vitality(minimum, maximum, agents, mem) ==
    Filter(agents, mem,
           [a \in Individuals(mem) |->
               InRange(mem.status[a].vitality, minimum, maximum)])

IsScalar(condition) == condition.t \in {"str", "int", "float", "bool"}

\* filter_status with a scalar mode that converts both sides and applies the
\* range test.
filter_status_coercing(status_key, condition, agents, mem) ==
    Filter(agents, mem,
           [a \in Individuals(mem) |->
               IF IsScalar(condition)
               THEN InRange(mem.status[a][status_key], condition, condition)
               ELSE InRange(mem.status[a][status_key],
                            condition.items[1], condition.items[2])])

filter_status(status_key, condition, agents, mem) ==
    Filter(agents, mem,
           [a \in Individuals(mem) |->
               IF IsScalar(condition)
               THEN Verdict(NoError, Equal(mem.status[a][status_key], condition))
               ELSE InRange(mem.status[a][status_key],
                            condition.items[1], condition.items[2])])

\* ------------------------------------------------------------------ filter calls
Agent(deme, gender, age, location, vitality, blood) ==
    [deme |-> deme, gender |-> gender, age |-> age, location |-> location,
     vitality |-> vitality, blood |-> blood]

East == <<1, 0, 0>>

\* The agents a caller's list is drawn from: demes and genders that differ by
\* case only and by more, ages and vitalities on, next to and off the edges
\* of the range 10 .. 20, and a status key that holds numbers on and next to
\* the edges of 1 .. 5, a boolean, a numeric string and a word.
Agents ==
    << Agent(<<"a", "b">>, <<"m">>, PyInt(10),     Origin, PyFloat(999),  PyInt(5)),
       Agent(<<"A", "B">>, <<"M">>, PyFloat(999),  East,   PyInt(10),     PyFloat(501)),
       Agent(<<"A", "b">>, <<"f">>, PyFloat(998),  Origin, PyFloat(2001), PyStr(<<"a", "b", "c">>)),
       Agent(<<"b">>,      <<"F">>, PyInt(20),     East,   PyFloat(2002), PyFloat(99)),
       Agent(<<"B">>,      <<"m">>, PyFloat(2001), Origin, PyFloat(998),  PyInt(1)),
       Agent(<<"b", "a">>, <<"f">>, PyFloat(2002), East,   PyInt(20),     PyStr(<<"5">>)),
       Agent(<<"a">>,      <<"M">>, PyInt(15),     Origin, PyInt(15),     PyBool(TRUE)) >>

RECURSIVE Lists(_, _)
Lists(ids, n) ==
    IF n = 0 THEN {<<>>}
    ELSE LET shorter == Lists(ids, n - 1)
         IN  shorter \cup {Append(l, a) : l \in shorter, a \in ids}

\* The calls a caller makes: the filter and its arguments before agents.
FilterCalls ==
    << [fn |-> "filter_deme",     args |-> << <<"a", "b">> >>],
       [fn |-> "filter_deme",     args |-> << <<"B">> >>],
       [fn |-> "filter_gender",   args |-> << <<"M">> >>],
       [fn |-> "filter_age",      args |-> <<PyInt(10), PyInt(20)>>],
       [fn |-> "filter_location", args |-> <<Origin>>],
       [fn |-> "filter_vitality", args |-> <<PyInt(10), PyInt(20)>>],
       [fn |-> "filter_status",   args |-> <<"blood", PyInt(5)>>],
       [fn |-> "filter_status",   args |-> <<"blood", PyInt(1)>>],
       [fn |-> "filter_status",   args |-> <<"blood", PyStr(<<"a", "b", "c">>)>>],
       [fn |-> "filter_status",   args |-> <<"blood", PyTuple(PyInt(1), PyInt(5))>>] >>

CallIds == 1 .. Len(FilterCalls)

\* The call k, a filter and its arguments before agents, made on the list
\* agents.
Applied(k, agents, mem) ==
    LET fn == k.fn
        args == k.args
    IN  CASE fn = "filter_deme" -> filter_deme(args[1], agents, mem)
          [] fn = "filter_gender" -> filter_gender(args[1], agents, mem)
          [] fn = "filter_age" -> filter_age(args[1], args[2], agents, mem)
          [] fn = "filter_location" -> filter_location(args[1], agents, mem)
          [] fn = "filter_vitality" -> filter_vitality(args[1], args[2], agents, mem)
          [] fn = "filter_status" -> filter_status(args[1], args[2], agents, mem)

\* What the caller sees of one call, and the memory the call started from.
Record(k, agents, mem, r) ==
    [call |-> k, agents |-> agents, result |-> r.result, err |-> r.err,
     before |-> mem, after |-> r.memory]

\* The caller's list is list 1.
InitFilters ==
    /\ \E l \in Lists(DOMAIN Agents, MaxLen) :
           memory = [status |-> Agents, lists |-> <<l>>]
    /\ outcome = NoOutcome
    /\ sim_parameters = <<>>
    /\ overridden = {}
    /\ behaviour = "noop"
    /\ faulty = FALSE
    /\ population_names = {}
    /\ directory_exists = FALSE
    /\ pc = "caller"
    /\ World = Unbound
    /\ Populations = <<>>
    /\ todo = <<>>
    /\ pop_name = 0
    /\ generation_count = 0
    /\ iter = Idle
    /\ err = NoError
    /\ log = <<>>
    /\ cellcalls = NoCalls
    /\ hookcalls = <<>>

simulation == <<sim_parameters, overridden, behaviour, faulty, population_names,
                directory_exists, pc, World, Populations, todo, pop_name,
                generation_count, iter, err, log, cellcalls, hookcalls>>

\* result = f(agents)
FilterCall(c) ==
    /\ outcome = NoOutcome
    /\ LET r == Applied(FilterCalls[c], 1, memory)
       IN  /\ memory' = r.memory
           /\ outcome' = <<Record(FilterCalls[c], 1, memory, r)>>
    /\ UNCHANGED simulation

\* second(first(agents)); an exception in first ends the caller.
Nest(first, second, mem) ==
    LET r == Applied(first, 1, mem)
    IN  IF r.err # NoError THEN [memory |-> r.memory, calls |-> <<Record(first, 1, mem, r)>>]
        ELSE LET q == Applied(second, r.result, r.memory)
             IN  [memory |-> q.memory,
                  calls |-> <<Record(first, 1, mem, r),
                              Record(second, r.result, r.memory, q)>>]

\* x = g(f(agents)); y = f(g(agents))
FilterTwice(f, g) ==
    /\ outcome = NoOutcome
    /\ LET x == Nest(FilterCalls[f], FilterCalls[g], memory)
       IN  IF Len(x.calls) < 2 \/ x.calls[2].err # NoError
           THEN /\ memory' = x.memory
                /\ outcome' = x.calls
           ELSE LET y == Nest(FilterCalls[g], FilterCalls[f], x.memory)
                IN  /\ memory' = y.memory
                    /\ outcome' = x.calls \o y.calls
    /\ UNCHANGED simulation

\* The values of status[key] in the list agents, each once, in the order of
\* their first occurrence.
RECURSIVE Distinct(_, _, _, _)
Distinct(mem, agents, key, n) ==
    IF n = 0 THEN <<>>
    ELSE LET seen == Distinct(mem, agents, key, n - 1)
             v == mem.status[mem.lists[agents][n]][key]
         IN  IF \E i \in DOMAIN seen : seen[i] = v THEN seen ELSE Append(seen, v)

\* One call of the filter fn on the caller's list for each of values, from
\* the i-th on.
RECURSIVE ForEach(_, _, _, _)
ForEach(fn, values, i, mem) ==
    IF i > Len(values) THEN [memory |-> mem, calls |-> <<>>]
    ELSE LET k == [fn |-> fn, args |-> <<values[i]>>]
             r == Applied(k, 1, mem)
             rest == ForEach(fn, values, i + 1, r.memory)
         IN  [memory |-> rest.memory,
              calls |-> <<Record(k, 1, mem, r)>> \o rest.calls]

\* parts = [f(v, agents) for v in the values that occur in agents], f being
\* filter_deme or filter_gender.
FilterPartition(fn, key) ==
    /\ outcome = NoOutcome
    /\ memory.lists[1] # <<>>
    /\ LET values == Distinct(memory, 1, key, Len(memory.lists[1]))
           p == ForEach(fn, values, 1, memory)
       IN  /\ memory' = p.memory
           /\ outcome' = p.calls
    /\ UNCHANGED simulation

NextFilters ==
    \/ \E c \in CallIds : FilterCall(c)
    \/ \E f \in CallIds, g \in CallIds : f <= g /\ FilterTwice(f, g)
    \/ FilterPartition("filter_deme", "deme")
    \/ FilterPartition("filter_gender", "gender")

SpecFilters == InitFilters /\ [][NextFilters]_vars

\* ------------------------------------------------------------------ filter properties
Fn(r) == r.call.fn

Args(r) == r.call.args

\* The list a call was given and the list it returned, as the caller sees them
\* once the call is over.
Given(r) == r.before.lists[r.agents]

Chosen(r) == r.after.lists[r.result]

Came(r) == r.err = NoError /\ r.result # 0

\* The calls of filter_age and filter_vitality that returned.
RangeCalls ==
    {i \in DOMAIN outcome :
        Fn(outcome[i]) \in {"filter_age", "filter_vitality"} /\ Came(outcome[i])}

\* The attribute a range filter reads, in hundredths.
Measured(r, a) ==
    IF Fn(r) = "filter_age" THEN r.before.status[a].age.n
    ELSE r.before.status[a].vitality.n

\* As stated: the widened bounds minimum - 0.01 and maximum + 0.01 are
\* themselves selected.
C11_BoundsIncluded ==
    \A i \in RangeCalls :
        LET r == outcome[i]
            In(a) == /\ Measured(r, a) >= Args(r)[1].n - 1
                     /\ Measured(r, a) <= Args(r)[2].n + 1
        IN  Chosen(r) = SelectSeq(Given(r), In)

\* C11: filter_age and filter_vitality return, in input order, exactly the
\* agents whose attribute lies strictly between minimum - 0.01 and
\* maximum + 0.01: with the range 10 .. 20, the values 10 and 20 are selected,
\* and 9.98, 9.99, 20.01 and 20.02 are not.
C11_StrictlyInside ==
    \A i \in RangeCalls :
        LET r == outcome[i]
            In(a) == /\ Measured(r, a) > Args(r)[1].n - 1
                     /\ Measured(r, a) < Args(r)[2].n + 1
        IN  Chosen(r) = SelectSeq(Given(r), In)

\* filter_age(10, 20, ...) and filter_vitality(10, 20, ...) each returned from
\* a list that held a value of 10 and a value of 9.99.
C11_Witness ==
    \A fn \in {"filter_age", "filter_vitality"} : \E i \in RangeCalls :
        LET r == outcome[i]
        IN  /\ Fn(r) = fn
            /\ \E j \in DOMAIN Given(r) : Measured(r, Given(r)[j]) = 1000
            /\ \E j \in DOMAIN Given(r) : Measured(r, Given(r)[j]) = 999
            /\ Chosen(r) # <<>>

\* The calls of filter_status that returned, by mode.
StatusCalls(scalar) ==
    {i \in DOMAIN outcome :
        /\ Fn(outcome[i]) = "filter_status"
        /\ Came(outcome[i])
        /\ IsScalar(Args(outcome[i])[2]) = scalar}

\* status[status_key] of agent a when call r was made.
Held(r, a) == r.before.status[a][Args(r)[1]]

\* The number a value stands for, in hundredths.
Number(v) == IF v.t = "str" THEN 100 * Decimal(v.s) ELSE v.n

\* v is the very value c: the same string, or the same number.
Exact(v, c) ==
    IF c.t = "str" THEN v.t = "str" /\ v.s = c.s
    ELSE v.t # "str" /\ v.n = c.n

\* Scalar mode: exactly the agents whose status[k] equals the condition.
ScalarMode ==
    \A i \in StatusCalls(TRUE) :
        LET r == outcome[i]
            In(a) == Exact(Held(r, a), Args(r)[2])
        IN  Chosen(r) = SelectSeq(Given(r), In)

\* As stated: the range mode selects the endpoints 1 - 0.01 and 5 + 0.01.
C12_EndpointsIncluded ==
    /\ ScalarMode
    /\ \A i \in StatusCalls(FALSE) :
           LET r == outcome[i]
               In(a) == /\ Number(Held(r, a)) >= Args(r)[2].items[1].n - 1
                        /\ Number(Held(r, a)) <= Args(r)[2].items[2].n + 1
           IN  Chosen(r) = SelectSeq(Given(r), In)

\* C12: filter_status with a scalar condition selects exactly the agents
\* whose status[k] equals the condition, with no range or tolerance test;
\* with a two-element condition (1, 5) it selects exactly the agents whose
\* status[k] lies strictly between 1 - 0.01 and 5 + 0.01, so 1 and 5 are
\* selected and the endpoints 0.99 and 5.01 are not.
C12_DualMode ==
    /\ ScalarMode
    /\ \A i \in StatusCalls(FALSE) :
           LET r == outcome[i]
               In(a) == /\ Number(Held(r, a)) > Args(r)[2].items[1].n - 1
                        /\ Number(Held(r, a)) < Args(r)[2].items[2].n + 1
           IN  Chosen(r) = SelectSeq(Given(r), In)

\* Both modes returned from the caller's list, which held a 5 next to a 5.01
\* or a "5".
C12_Witness ==
    /\ \E i \in StatusCalls(TRUE) :
           LET r == outcome[i]
           IN  /\ r.agents = 1
               /\ Args(r)[2] = PyInt(5)
               /\ Chosen(r) # <<>>
               /\ \E j \in DOMAIN Given(r) : Held(r, Given(r)[j]) = PyFloat(501)
    /\ \E i \in StatusCalls(FALSE) :
           LET r == outcome[i]
           IN  /\ r.agents = 1
               /\ Chosen(r) # <<>>
               /\ \E j \in DOMAIN Given(r) :
                      Held(r, Given(r)[j]) \in {PyFloat(501), PyFloat(99)}

\* Case folding, by way of the lower case.
LowerChar(c) == CASE c = "A" -> "a" [] c = "B" -> "b" [] c = "M" -> "m" [] c = "F" -> "f" [] OTHER -> c

Fold(chars) == [i \in 1 .. Len(chars) |-> LowerChar(chars[i])]

\* The attribute filter_deme and filter_gender compare.
Attribute(r, a) ==
    IF Fn(r) = "filter_deme" THEN r.before.status[a].deme
    ELSE r.before.status[a].gender

NameCalls == {i \in DOMAIN outcome : Fn(outcome[i]) \in {"filter_deme", "filter_gender"}}

\* The calls made so far are one filter applied to the caller's list once for
\* every value of the attribute that occurs in it.
Partitioned ==
    /\ outcome # <<>>
    /\ \A i \in DOMAIN outcome :
           /\ i \in NameCalls
           /\ outcome[i].agents = 1
           /\ Fn(outcome[i]) = Fn(outcome[1])
    /\ {Args(outcome[i])[1] : i \in DOMAIN outcome} =
           {Attribute(outcome[1], memory.lists[1][j]) : j \in DOMAIN memory.lists[1]}

Members(l) == {l[j] : j \in DOMAIN l}

\* C13: filter_deme and filter_gender return, in input order, exactly the
\* agents whose attribute equals the argument after case folding; called once
\* for every value that occurs in a list, their results together hold every
\* agent of the list, and the results for two values that differ beyond case
\* share no agent.
C13_CaseInsensitivePartition ==
    /\ \A i \in NameCalls :
           LET r == outcome[i]
               In(a) == Fold(Attribute(r, a)) = Fold(Args(r)[1])
           IN  Came(r) /\ Chosen(r) = SelectSeq(Given(r), In)
    /\ Partitioned =>
           /\ Members(memory.lists[1]) =
                  UNION {Members(Chosen(outcome[i])) : i \in DOMAIN outcome}
           /\ \A i, j \in DOMAIN outcome :
                  Fold(Args(outcome[i])[1]) # Fold(Args(outcome[j])[1]) =>
                      Members(Chosen(outcome[i])) \cap Members(Chosen(outcome[j])) = {}

\* A list was partitioned by deme: it held two demes that differ by case only
\* and a third that differs by more.
C13_Witness ==
    /\ Partitioned
    /\ Fn(outcome[1]) = "filter_deme"
    /\ \E i, j, k \in DOMAIN outcome :
           /\ Args(outcome[i])[1] # Args(outcome[j])[1]
           /\ Fold(Args(outcome[i])[1]) = Fold(Args(outcome[j])[1])
           /\ Fold(Args(outcome[i])[1]) # Fold(Args(outcome[k])[1])
           /\ Len(Chosen(outcome[i])) = 2
           /\ Chosen(outcome[k]) # <<>>

\* s can be had from t by leaving elements out.
RECURSIVE IsSubsequence(_, _)
IsSubsequence(s, t) ==
    IF s = <<>> THEN TRUE
    ELSE IF t = <<>> THEN FALSE
    ELSE IF Head(s) = Head(t) THEN IsSubsequence(Tail(s), Tail(t))
    ELSE IsSubsequence(s, Tail(t))

SixFilters ==
    {"filter_deme", "filter_gender", "filter_age", "filter_location",
     "filter_vitality", "filter_status"}

\* C14: a call of any of the six filters, whether it returns or raises,
\* leaves every agent's attributes and every list that existed before it, the
\* input among them, as they were; the list it returns did not exist before
\* the call and is a subsequence of the input.
C14_Pure ==
    \A i \in DOMAIN outcome :
        LET r == outcome[i]
        IN  /\ Fn(r) \in SixFilters
            /\ r.after.status = r.before.status
            /\ \A l \in DOMAIN r.before.lists : r.after.lists[l] = r.before.lists[l]
            /\ Came(r) =>
                   /\ r.result \notin DOMAIN r.before.lists
                   /\ r.result # r.agents
                   /\ IsSubsequence(Chosen(r), Given(r))

\* Two different filters returned, the first with two of the three agents
\* it was given, one agent being in the list twice.
C14_Witness ==
    /\ Len(outcome) >= 2
    /\ Fn(outcome[1]) # Fn(outcome[2])
    /\ Came(outcome[1]) /\ Came(outcome[2])
    /\ Len(Given(outcome[1])) = 3
    /\ Len(Chosen(outcome[1])) = 2
    /\ Chosen(outcome[1])[1] = Chosen(outcome[1])[2]

\* Every call of filter_status made so far, returned or not.
AllStatusCalls == {i \in DOMAIN outcome : Fn(outcome[i]) = "filter_status"}

Numeric(v) == v.t \in {"int", "float", "bool"} \/ (v.t = "str" /\ float(v).err = NoError)

\* Call r was given an agent whose status[k] is neither a number nor the
\* condition.
Offending(r) ==
    \E j \in DOMAIN Given(r) :
        LET v == Held(r, Given(r)[j])
        IN  ~Numeric(v) /\ ~(IsScalar(Args(r)[2]) /\ Exact(v, Args(r)[2]))

Failed(r) == r.err.type = "ValueError" /\ r.result = 0

\* As stated: a status value that is neither numeric nor an exact match makes
\* the call fail in either mode.
C15_FailsInBothModes ==
    \A i \in AllStatusCalls : Offending(outcome[i]) => Failed(outcome[i])

\* C15: in range mode, filter_status fails with a conversion error
\* (ValueError) and returns nothing exactly when some agent of the list,
\* wherever it sits, has a status[key] that cannot be converted to a number;
\* in scalar mode it converts nothing and never fails: such an agent is just
\* not selected.
C15_FailsInRangeMode ==
    \A i \in AllStatusCalls :
        LET r == outcome[i]
        IN  IF IsScalar(Args(r)[2])
            THEN /\ Came(r)
                 /\ \A j \in DOMAIN Given(r) :
                        ~Exact(Held(r, Given(r)[j]), Args(r)[2]) =>
                            Given(r)[j] \notin Members(Chosen(r))
            ELSE /\ Offending(r) <=> Failed(r)
                 /\ ~Offending(r) => Came(r)

\* The range mode failed on a list of three whose last agent holds a word,
\* and the scalar mode returned from the same list.
C15_Witness ==
    \E i, j \in AllStatusCalls :
        /\ ~IsScalar(Args(outcome[i])[2])
        /\ Failed(outcome[i])
        /\ Len(Given(outcome[i])) = 3
        /\ \A n \in 1 .. 3 : Numeric(Held(outcome[i], Given(outcome[i])[n])) <=> n < 3
        /\ IsScalar(Args(outcome[j])[2])
        /\ Given(outcome[j]) = Given(outcome[i])
        /\ Offending(outcome[j])
        /\ Chosen(outcome[j]) # <<>>

\* ------------------------------------------------------------------ grid passes
\* The coordinates of an X by Y by Z grid in ascending order, x before y
\* before z: the i-th of them, counted from 1.
Ascending(X, Y, Z) ==
    [i \in 1 .. X * Y * Z |->
        <<(i - 1) \div (Y * Z), ((i - 1) \div Z) % Y, (i - 1) % Z>>]

\* The visiting order the configuration calls for.
GridOrder ==
    IF {"world_x", "world_y", "world_z"} \subseteq DOMAIN sim_parameters
    THEN Ascending(sim_parameters["world_x"], sim_parameters["world_y"],
                   sim_parameters["world_z"])
    ELSE <<>>

IsPrefix(s, t) == Len(s) <= Len(t) /\ s = SubSeq(t, 1, Len(s))

\* The pass of fn of the current generation has returned: a later phase of
\* the generation has been called.
PassOver(fn) ==
    /\ log # <<>>
    /\ IsPhase(log[Len(log)])
    /\ log[Len(log)].gen = generation_count
    /\ log[Len(log)].pop = pop_name
    /\ \E k \in 1 .. Len(PhaseOrder) :
           PhaseOrder[k] = fn /\ Position(log[Len(log)]) > k

\* C16: in every generation, each of the three grid passes (update_ecology,
\* update_local, report) calls its cell function along the one order that
\* ascends by x, then y, then z: what a pass has visited so far is always
\* an initial stretch of that order, and a pass that has returned has visited
\* all world_x * world_y * world_z coordinates, each once.
C16_AscendingOrder ==
    \A fn \in CellFunctions :
        /\ IsPrefix(cellcalls[fn], GridOrder)
        /\ PassOver(fn) =>
               /\ cellcalls[fn] = GridOrder
               /\ Len(cellcalls[fn]) =
                      sim_parameters["world_x"] * sim_parameters["world_y"]
                          * sim_parameters["world_z"]
               /\ \A i, j \in DOMAIN cellcalls[fn] :
                      i # j => cellcalls[fn][i] # cellcalls[fn][j]

\* The three passes of a second generation have returned on a grid that is
\* two cells wide in every direction.
C16_Witness ==
    /\ generation_count >= 2
    /\ log # <<>> /\ log[Len(log)].op = "bury_world"
    /\ log[Len(log)].gen = generation_count
    /\ World.x = MaxDim /\ World.y = MaxDim /\ World.z = MaxDim
    /\ \A fn \in CellFunctions :
           PassOver(fn) /\ Len(cellcalls[fn]) = MaxDim * MaxDim * MaxDim

\* ------------------------------------------------------------------ occupancy
\* deploy has returned for population p.
Deployed(p) ==
    \E i \in 1 .. Len(log) :
        /\ log[i].op = "deploy"
        /\ log[i].pop = p
        /\ i = Len(log) => err = NoError

\* The agents of the deployed populations that are recorded at c.
Residents(c) ==
    {<<p, i>> \in (DOMAIN Populations) \X (1 .. PopSize) :
        Deployed(p) /\ Populations[p].agents[i].location = c}

Locations ==
    [p \in DOMAIN Populations |->
        [i \in 1 .. PopSize |-> Populations[p].agents[i].location]]

Occupancy == [c \in WorldCells(World) |-> World.ecosystem[c].organisms]

\* The user's hooks do their job: the deployment scheme places the agents and
\* counts them, the movement hooks update location and counts together.
Dutiful == behaviour = "active" /\ "deployment_scheme" \in overridden

Consistent ==
    /\ \A p \in DOMAIN Populations : Deployed(p) =>
           \A i \in 1 .. PopSize : Populations[p].agents[i].location \in WorldCells(World)
    /\ \A c \in WorldCells(World) : Occupancy[c] = Cardinality(Residents(c))

Ops(p) ==
    LET Mine(e) == e.pop = p
        mine == SelectSeq(log, Mine)
    IN  [i \in 1 .. Len(mine) |-> mine[i].op]

Lifecycle == <<"write_parameters", "deploy", "close_results">>

\* A complete dictionary, collaborators that work, and a maximum_generations
\* of zero or less.
NoGenerations == RequiredKeys \subseteq DOMAIN sim_parameters /\ ~faulty /\ N <= 0

\* Nothing of the generation loop has run, and each population has gone
\* through write_parameters, deploy, close_results as far as the run got.
LoopSkipped ==
    /\ generation_count = 0
    /\ \A i \in 1 .. Len(log) : ~IsPhase(log[i])
    /\ cellcalls = NoCalls
    /\ \A i \in 1 .. Len(hookcalls) : hookcalls[i].hook = "deployment_scheme"
    /\ \A p \in population_names : IsPrefix(Ops(p), Lifecycle)
    /\ pc = "done" => \A p \in population_names : Ops(p) = Lifecycle

\* The run has raised nothing, and goes on until simulate returns.
Unfailing == err = NoError /\ pc # "aborted" /\ (pc # "done" => ENABLED Next)

\* As stated: the run ends without error whatever the subclass overrides.
C18_EndsWhateverOverridden == NoGenerations => LoopSkipped /\ Unfailing

\* C18: with maximum_generations <= 0 no generation runs: no hook of the
\* loop, no interpret_chromosome, report_generation or bury_world is called,
\* and write_parameters, deploy and close_results are called once each per
\* population, in that order; the run ends without error even if no hook of
\* the loop is overridden, provided the deployment scheme, which deploy
\* calls, is overridden or there is no population to deploy.
C18_ZeroGenerations ==
    NoGenerations =>
        /\ LoopSkipped
        /\ ("deployment_scheme" \in overridden \/ population_names = {}) => Unfailing

\* A run with two populations, a negative maximum_generations and a subclass
\* that overrides nothing but the deployment scheme has returned.
C18_Witness ==
    /\ NoGenerations
    /\ N < 0
    /\ overridden = {"deployment_scheme"}
    /\ population_names = {1, 2}
    /\ pc = "done"
    /\ Ops(2) = Lifecycle

\* ------------------------------------------------------------------ filter algebra
\* Agent a meets the condition of the call r.
Satisfies(r, a) ==
    CASE Fn(r) \in {"filter_deme", "filter_gender"} ->
             Fold(Attribute(r, a)) = Fold(Args(r)[1])
      [] Fn(r) \in {"filter_age", "filter_vitality"} ->
             /\ Measured(r, a) > Args(r)[1].n - 1
             /\ Measured(r, a) < Args(r)[2].n + 1
      [] Fn(r) = "filter_location" ->
             r.before.status[a].location = Args(r)[1]
      [] Fn(r) = "filter_status" ->
             IF IsScalar(Args(r)[2]) THEN Exact(Held(r, a), Args(r)[2])
             ELSE /\ Number(Held(r, a)) > Args(r)[2].items[1].n - 1
                  /\ Number(Held(r, a)) < Args(r)[2].items[2].n + 1

\* The caller has computed g(f(A)) and f(g(A)) from its list A, and none of
\* the four calls raised.
Composed ==
    /\ Len(outcome) = 4
    /\ \A i \in 1 .. 4 : Came(outcome[i])
    /\ outcome[1].agents = 1 /\ outcome[2].agents = outcome[1].result
    /\ outcome[3].agents = 1 /\ outcome[4].agents = outcome[3].result

SameCall(r, q) == Fn(r) = Fn(q) /\ Args(r) = Args(q)

\* C19: when neither filter raises on a list A, g(f(A)) and f(g(A)) are the
\* same sequence, namely the agents of A that meet both conditions, in the
\* order of A; and a filter applied to its own result returns a sequence
\* equal to that result.
C19_IdempotentCommuting ==
    /\ Composed =>
           LET Both(a) == Satisfies(outcome[1], a) /\ Satisfies(outcome[3], a)
           IN  /\ Chosen(outcome[2]) = Chosen(outcome[4])
               /\ Chosen(outcome[2]) = SelectSeq(memory.lists[1], Both)
               /\ SameCall(outcome[1], outcome[2]) =>
                      Chosen(outcome[2]) = Chosen(outcome[1])
    /\ \A i \in DOMAIN outcome :
           (i > 1 /\ outcome[i].agents # 1 /\ outcome[i].agents = outcome[i - 1].result
                  /\ ~Came(outcome[i]))
               => Applied(outcome[i].call, 1, outcome[1].before).err # NoError

\* Two different filters, each of which alone keeps a different part of a
\* list of three, were applied in both orders and kept one agent.
C19_Witness ==
    /\ Composed
    /\ Fn(outcome[1]) # Fn(outcome[3])
    /\ Len(memory.lists[1]) = 3
    /\ Len(Chosen(outcome[1])) = 2
    /\ Len(Chosen(outcome[3])) = 2
    /\ Chosen(outcome[1]) # Chosen(outcome[3])
    /\ Len(Chosen(outcome[2])) = 1
====
